---- MODULE Spec2Model ----
(***************************************************************************)
(* State-machine model of base_escalonador.py: the TarefaCAV record, the   *)
(* EscalonadorCAV base class and its twelve escalonar() strategies.        *)
(*                                                                         *)
(* Time is counted in tenths of a time unit (Unidade tenths = 1 unit), so  *)
(* the 0.3 context-switch overhead is the integer Sobrecarga = 3 and all   *)
(* clock arithmetic is exact decimal arithmetic; the rounding of Python's  *)
(* binary floats is not modelled.  Objects are referred to by reference    *)
(* (their creation order); self.tarefas, fila and the loop variable tarefa *)
(* hold references into objetos.                                           *)
(***************************************************************************)
EXTENDS Integers, Sequences, FiniteSets, TLC

\* ------------------------------------------------------------------ bounds
MaxTarefas == 3
MaxDuracao == 3
MaxChegada == 3
MaxQuantum == 2
MaxPrioridade == 2
MaxBursts == 4
MaxRelogio == 30
MaxChamadas == 2

\* ------------------------------------------------------- program constants
Unidade == 10
Sobrecarga == 3
UrgMaxInv == 2
None == -9999

VARIABLES estrategia, carga, quantum, quantum_atual, objetos, tarefas,
          menor_tarefa, sobrecarga_total, tempo_atual, fila, tarefa, indice,
          pc, historico, retorno

vars == <<estrategia, carga, quantum, quantum_atual, objetos, tarefas,
          menor_tarefa, sobrecarga_total, tempo_atual, fila, tarefa, indice,
          pc, historico, retorno>>

NaoPreemptivas == {"FIFO", "SJF", "PrioridadeNP"}
FutureVisions == {"FutureVision", "FutureVisionMedia", "FutureVisionMediaIntervalo",
                  "FutureVisionMin", "FutureVisionMax"}
Preemptivas == {"RoundRobin", "EDF", "PrioridadeP", "UG"} \cup FutureVisions
Estrategias == NaoPreemptivas \cup Preemptivas

Max(a, b) == IF a >= b THEN a ELSE b
Min(a, b) == IF a <= b THEN a ELSE b

\* ------------------------------------------------------------------ tasks
\* TarefaCAV.__init__
NovaTarefa(nome, duracao, tempo_chegada, prioridade, deadline) ==
    [nome |-> nome, duracao |-> duracao, prioridade |-> prioridade,
     tempo_restante |-> duracao, tempo_inicio |-> None, tempo_final |-> None,
     tempo_chegada |-> tempo_chegada, tempo_em_espera |-> 0,
     tempo_de_resposta |-> None, tempo_inicio_execucao_atual |-> None,
     tempo_final_execucao_atual |-> None, deadline |-> deadline,
     tempos_execucao |-> <<>>]

\* Faulty variant of executar: the whole quantum is consumed whatever is left
\* of the task.  C25 does not survive it.
executar_sem_limite(o, quantum_pedido) ==
    [tarefa |-> [o EXCEPT !.tempo_restante = @ - quantum_pedido],
     retorno |-> quantum_pedido]

\* TarefaCAV.executar: the task object after the call, and the value returned.
executar(o, quantum_pedido) ==
    LET tempo_exec == Min(o.tempo_restante, quantum_pedido)
    IN [tarefa |-> [o EXCEPT !.tempo_restante = @ - tempo_exec],
        retorno |-> tempo_exec]

\* The values the workload source draws (criar_tarefas draws them at random):
\* a zero, a short and a long duration; an immediate and a late arrival; the
\* default and a higher priority; an absent, a tight and a loose deadline.
Duracoes == {0, Unidade, MaxDuracao * Unidade}
Chegadas == {0, MaxChegada * Unidade}
Prioridades == {1, MaxPrioridade}
Deadlines == {None, Unidade, 2 * MaxDuracao * Unidade}
Quanta == {Unidade, MaxQuantum * Unidade}

\* The task descriptors the workload source hands to a scheduler of strategy
\* e: priorities and deadlines are drawn only for the strategies that read
\* them, the others get the constructor's defaults; UG, which reads both,
\* is given no zero-duration task.
OfertaGeral(e) ==
    { NovaTarefa("T", d, c, p, dl) :
        d \in (IF e = "UG" THEN Duracoes \ {0} ELSE Duracoes), c \in Chegadas,
        p \in (IF e \in {"PrioridadeNP", "PrioridadeP", "UG"} THEN Prioridades ELSE {1}),
        dl \in (IF e \in {"EDF", "UG"} THEN Deadlines ELSE {None}) }

\* The two worked scenarios of the specification (section 8).
OfertaCenario ==
    { NovaTarefa("A", 4 * Unidade, 0, 1, None),
      NovaTarefa("B", 2 * Unidade, 0, 1, None),
      NovaTarefa("C", 1 * Unidade, 1 * Unidade, 1, None),
      NovaTarefa("A", 5 * Unidade, 0, 1, None),
      NovaTarefa("B", 3 * Unidade, 0, 1, None) }

\* The short workload: durations and arrivals only, the rest as criar_tarefas
\* would default them.
OfertaCurta ==
    { NovaTarefa("T", d, c, 1, 2 * MaxDuracao * Unidade) :
        d \in Duracoes, c \in Chegadas }

\* Task descriptors with no restriction on the sign of duracao and
\* tempo_chegada.
OfertaLivre ==
    { NovaTarefa("T", d, c, 1, 2 * MaxDuracao * Unidade) :
        d \in {-Unidade, 0, Unidade}, c \in {-Unidade, 0} }

\* The workload with gaps: tasks of one and two units, so that a preempted
\* task can finish, at a fractional clock, before the late arrival.
OfertaOcio ==
    { NovaTarefa("T", d, c, 1, 2 * MaxDuracao * Unidade) :
        d \in {Unidade, 2 * Unidade}, c \in Chegadas }

Oferta == CASE carga = "cenario" -> OfertaCenario
            [] carga = "curta" -> OfertaCurta
            [] carga = "ocio" -> OfertaOcio
            [] carga = "livre" -> OfertaLivre
            [] OTHER -> OfertaGeral(estrategia)

\* How many tasks the driver adds at most: one fewer for the strategies whose
\* tasks carry priorities or deadlines, and in the short workload.
LimiteTarefas ==
    IF carga \in {"curta", "livre", "ocio"}
       \/ (carga = "geral" /\ estrategia \in {"PrioridadeNP", "PrioridadeP", "EDF", "UG"})
    THEN MaxTarefas - 1 ELSE MaxTarefas

\* Faulty variant of Ordenar: the list is left as it was.  C21 does not
\* survive it.
OrdenarNada(s, chave) == s

\* ------------------------------------------------------- sequence helpers
\* list.sort(key=...): stable, ascending.  chave maps a reference to its key.
Ordenar(s, chave) ==
    LET n == Len(s)
        pos(i) == Cardinality({j \in 1..n : chave[s[j]] < chave[s[i]]})
                  + Cardinality({j \in 1..i : chave[s[j]] = chave[s[i]]})
    IN [k \in 1..n |-> s[CHOOSE i \in 1..n : pos(i) = k]]

\* list.sort(key=..., reverse=True): descending, equal keys keep their order.
OrdenarReverso(s, chave) ==
    LET n == Len(s)
        pos(i) == Cardinality({j \in 1..n : chave[s[j]] > chave[s[i]]})
                  + Cardinality({j \in 1..i : chave[s[j]] = chave[s[i]]})
    IN [k \in 1..n |-> s[CHOOSE i \in 1..n : pos(i) = k]]

\* deque.remove(x): drops the first occurrence of x.
Remover(f, r) ==
    LET i == CHOOSE k \in 1..Len(f) : f[k] = r /\ \A j \in 1..(k-1) : f[j] # r
    IN SubSeq(f, 1, i - 1) \o SubSeq(f, i + 1, Len(f))

\* [tarefa for tarefa in fila if tarefa.tempo_chegada <= self.tempo_atual]
Chegaram(f, agora) == SelectSeq(f, LAMBDA r : objetos[r].tempo_chegada <= agora)

Refs == DOMAIN objetos
ChaveChegada == [r \in Refs |-> objetos[r].tempo_chegada]
ChaveDuracao == [r \in Refs |-> objetos[r].duracao]
ChaveDeadline == [r \in Refs |-> objetos[r].deadline]
ChavePrioridade == [r \in Refs |-> objetos[r].prioridade]
ChaveRestante == [r \in Refs |-> objetos[r].tempo_restante]

\* tempos_execucao.append(...): the model keeps the first MaxBursts bursts of a
\* task (only a run that never ends records more).
AnexarBurst(lista, burst) ==
    IF Len(lista) < MaxBursts THEN Append(lista, burst) ELSE lista

\* ------------------------------------------------------------ construction
\* EscalonadorCAV.__init__: no tasks, no overhead, clock 0.
InitVazio ==
    /\ objetos = <<>>
    /\ tarefas = <<>>
    /\ menor_tarefa = 0
    /\ sobrecarga_total = 0
    /\ tempo_atual = 0
    /\ fila = <<>>
    /\ tarefa = 0
    /\ indice = 0
    /\ pc = "pronto"
    /\ historico = <<>>
    /\ retorno = [n |-> 0, ref |-> 0, quantum |-> 0, valor |-> None]

\* A scheduler of any strategy, the preemptive ones with a positive quantum.
InitBase ==
    /\ estrategia \in Estrategias
    /\ quantum \in (IF estrategia \in Preemptivas
                    THEN Quanta ELSE {0})
    /\ quantum_atual = quantum
    /\ InitVazio

Init == InitBase /\ carga = "geral"

\* What the constructors and adicionar_tarefa accept: they check nothing, so
\* a preemptive scheduler may hold quantum 0 and a task may carry a negative
\* duracao or tempo_chegada.
InitLivre ==
    /\ estrategia \in Estrategias
    /\ quantum \in (IF estrategia \in Preemptivas
                    THEN Quanta \cup {0} ELSE {0})
    /\ quantum_atual = quantum
    /\ InitVazio
    /\ carga = "livre"

InitCurta == InitBase /\ carga = "curta"

InitOcio == InitBase /\ carga = "ocio"

InitCenarios == InitBase /\ carga = "cenario"
                /\ (estrategia \in Preemptivas => quantum = 2 * Unidade)

\* EscalonadorCAV.adicionar_tarefa
AdicionarTarefa ==
    /\ pc = "pronto"
    /\ Len(tarefas) < LimiteTarefas
    /\ \E t \in Oferta :
         LET r == Len(objetos) + 1 IN
         /\ objetos' = Append(objetos, t)
         /\ tarefas' = Append(tarefas, r)
         /\ menor_tarefa' = IF menor_tarefa = 0 THEN r
                            ELSE IF t.duracao < objetos[menor_tarefa].duracao THEN r
                            ELSE menor_tarefa
    /\ UNCHANGED <<estrategia, carga, retorno, quantum, quantum_atual, sobrecarga_total,
                   tempo_atual, fila, tarefa, indice, pc, historico>>

\* Faulty variant of CabecaEscalonar: every escalonar() call starts by
\* setting sobrecarga_total back to 0.  C35 does not survive it.
CabecaEscalonarZerando ==
    /\ LET ordenadas == Ordenar(tarefas, ChaveChegada) IN
       /\ tarefas' = ordenadas
       /\ fila' = IF estrategia = "FIFO" THEN <<>> ELSE ordenadas
       /\ indice' = IF estrategia = "FIFO" /\ Len(tarefas) > 0 THEN 1 ELSE 0
       /\ tempo_atual' = IF Len(tarefas) > 0
                         THEN objetos[ordenadas[1]].tempo_chegada ELSE tempo_atual
       /\ pc' = IF Len(tarefas) > 0 THEN "executando" ELSE "retornou"
    /\ sobrecarga_total' = 0
    /\ UNCHANGED <<estrategia, carga, retorno, quantum, quantum_atual, objetos,
                   menor_tarefa, tarefa, historico>>

\* The head of every escalonar(): sort self.tarefas by arrival, build fila,
\* set the clock to the first arrival.
CabecaEscalonar ==
    /\ LET ordenadas == Ordenar(tarefas, ChaveChegada) IN
       /\ tarefas' = ordenadas
       /\ fila' = IF estrategia = "FIFO" THEN <<>> ELSE ordenadas
       /\ indice' = IF estrategia = "FIFO" /\ Len(tarefas) > 0 THEN 1 ELSE 0
       /\ tempo_atual' = IF Len(tarefas) > 0
                         THEN objetos[ordenadas[1]].tempo_chegada ELSE tempo_atual
       /\ pc' = IF Len(tarefas) > 0 THEN "executando" ELSE "retornou"
    /\ UNCHANGED <<estrategia, carga, retorno, quantum, quantum_atual, objetos, menor_tarefa,
                   sobrecarga_total, tarefa, historico>>

\* The first escalonar() call on a scheduler.
IniciarEscalonamento == pc = "pronto" /\ CabecaEscalonar

\* A later escalonar() call on a scheduler whose earlier call has returned:
\* the same head, on the tasks as the earlier call left them.
EscalonarDeNovo == pc = "retornou" /\ CabecaEscalonar

\* Faulty variant of ExecutarInteira: the burst starts at the clock even when
\* the task has not arrived yet.  C3 and C33 do not survive it.
ExecutarInteiraSemEspera(o, agora) ==
    [o EXCEPT !.tempo_inicio = agora,
              !.tempo_inicio_execucao_atual = agora,
              !.tempo_final_execucao_atual = agora + o.duracao,
              !.tempos_execucao = AnexarBurst(@, <<agora, agora + o.duracao>>),
              !.tempo_final = agora + o.duracao,
              !.tempo_em_espera = agora - o.tempo_chegada,
              !.tempo_de_resposta = agora - o.tempo_chegada]

\* ------------------------------------------------- non-preemptive dispatch
\* One run-to-completion dispatch as FIFO and SJF write it: the task object
\* after it, given the clock before it.
ExecutarInteira(o, agora) ==
    LET inicio == Max(agora, o.tempo_chegada)
        fim == inicio + o.duracao
    IN [o EXCEPT !.tempo_inicio = inicio,
                 !.tempo_inicio_execucao_atual = inicio,
                 !.tempo_final_execucao_atual = fim,
                 !.tempos_execucao = AnexarBurst(@, <<inicio, fim>>),
                 !.tempo_final = fim,
                 !.tempo_em_espera = inicio - o.tempo_chegada,
                 !.tempo_de_resposta = inicio - o.tempo_chegada]

Registro(r, o) ==
    [ref |-> r, inicio |-> o.tempo_inicio_execucao_atual,
     fim |-> o.tempo_final_execucao_atual, restante |-> o.tempo_restante]

\* The dispatch log: every burst in the order the bursts were appended.
Anotar(r, antes, depois) ==
    IF Len(antes.tempos_execucao) < MaxBursts
    THEN Append(historico, Registro(r, depois)) ELSE historico

\* EscalonadorFIFO.escalonar: one iteration of "for tarefa in self.tarefas"
EscalonarFIFO ==
    /\ pc = "executando"
    /\ estrategia = "FIFO"
    /\ LET r == tarefas[indice]
           o == ExecutarInteira(objetos[r], tempo_atual)
       IN /\ objetos' = [objetos EXCEPT ![r] = o]
          /\ tempo_atual' = o.tempo_final
          /\ tarefa' = r
          /\ historico' = Anotar(r, objetos[r], o)
    /\ indice' = indice + 1
    /\ pc' = IF indice = Len(tarefas) THEN "retornou" ELSE "executando"
    /\ UNCHANGED <<estrategia, carga, retorno, quantum, quantum_atual, tarefas, menor_tarefa,
                   sobrecarga_total, fila>>

\* Faulty variant of EscolherSJF: the first arrived task in queue order,
\* whatever its duracao.  C7 does not survive it.
EscolherSJFPorOrdem ==
    LET chegaram == Chegaram(fila, tempo_atual)
    IN IF Len(chegaram) > 0 THEN chegaram[1] ELSE tarefa

\* SJF's choice: the arrived task of least duracao, or, when none has arrived,
\* whatever the loop variable tarefa still holds from the iteration before.
EscolherSJF ==
    LET chegaram == Ordenar(Chegaram(fila, tempo_atual), ChaveDuracao)
    IN IF Len(chegaram) > 0 THEN chegaram[1] ELSE tarefa

\* EscalonadorSJF.escalonar: one iteration of "while fila"
EscalonarSJF ==
    /\ pc = "executando"
    /\ estrategia = "SJF"
    /\ LET r == EscolherSJF
           o == ExecutarInteira(objetos[r], tempo_atual)
           f == IF Len(Chegaram(fila, tempo_atual)) > 0 THEN Remover(fila, r) ELSE fila
       IN /\ objetos' = [objetos EXCEPT ![r] = o]
          /\ tempo_atual' = o.tempo_final
          /\ tarefa' = r
          /\ fila' = f
          /\ historico' = Anotar(r, objetos[r], o)
          /\ pc' = IF f = <<>> THEN "retornou" ELSE "executando"
    /\ UNCHANGED <<estrategia, carga, retorno, quantum, quantum_atual, tarefas, menor_tarefa,
                   sobrecarga_total, indice>>

\* Faulty variant of Reinserir: the preempted task always goes to the end of
\* the queue.  C32 does not survive it.
ReinserirNoFim(f, r, agora) == Append(f, r)

\* Faulty variant of Reinserir: the preempted task goes to the head of the
\* queue.  C36 does not survive it.
ReinserirNaFrente(f, r, agora) == <<r>> \o f

\* ----------------------------------------------------- preemptive dispatch
\* Reinsertion of a preempted task: before the first queued task that has not
\* arrived by the clock, else at the end.
Reinserir(f, r, agora) ==
    LET depois == {i \in 1..Len(f) : objetos[f[i]].tempo_chegada > agora}
    IN IF depois = {} THEN Append(f, r)
       ELSE LET i == CHOOSE k \in depois : \A j \in depois : k <= j
            IN SubSeq(f, 1, i - 1) \o <<r>> \o SubSeq(f, i, Len(f))

\* Faulty variant of TempoExec: the quantum is ignored.  C4 and C37 do
\* not survive it.
TempoExecSemQuantum(o, q) == o.tempo_restante

\* Faulty variant of TempoExec: the whole quantum is consumed whatever is
\* left of the task.  C23 does not survive it.
TempoExecQuantumInteiro(o, q) == q

\* tempo_exec = min(tarefa.tempo_restante, quantum)
TempoExec(o, q) == Min(o.tempo_restante, q)

\* The body of "if tarefa.tempo_restante > 0": the task object after a burst
\* of tempo_exec that starts no earlier than the clock agora.
ExecutarBurst(o, agora, tempo_exec) ==
    LET inicio == Max(agora, o.tempo_chegada)
        fim == inicio + tempo_exec
        resta == o.tempo_restante - tempo_exec
        primeiro == IF o.tempo_inicio = None THEN inicio ELSE o.tempo_inicio
    IN [o EXCEPT !.tempo_inicio_execucao_atual = inicio,
                 !.tempo_inicio = primeiro,
                 !.tempo_em_espera = @ + inicio
                     - (IF o.tempo_final_execucao_atual # None
                        THEN o.tempo_final_execucao_atual ELSE 0),
                 !.tempo_final_execucao_atual = fim,
                 !.tempos_execucao = AnexarBurst(@, <<inicio, fim>>),
                 !.tempo_restante = resta,
                 !.tempo_de_resposta = primeiro - o.tempo_chegada,
                 !.tempo_final = IF resta > 0 THEN @ ELSE fim]

\* Faulty variant of registrar_sobrecarga: the overhead is counted twice.
\* C9 does not survive it.
registrar_sobrecarga_em_dobro(total, tempo) == total + 2 * tempo

\* EscalonadorCAV.registrar_sobrecarga
registrar_sobrecarga(total, tempo) == total + tempo

\* Faulty variant of RelogioApos: the clock never pays the overhead.  C8 and
\* C38 do not survive it.
RelogioAposSemSobrecarga(o) == o.tempo_final_execucao_atual

\* Faulty variant of RelogioApos: the clock stays at the start of the burst.
\* C22 does not survive it.
RelogioAposNoInicio(o) == o.tempo_inicio_execucao_atual

\* The clock after a burst: the overhead is charged when the task is preempted.
RelogioApos(o) ==
    IF o.tempo_restante > 0 THEN o.tempo_final_execucao_atual + Sobrecarga
    ELSE o.tempo_final_execucao_atual

\* math.ceil(self.tempo_atual + 1)
ProximaUnidade(agora) ==
    LET x == agora + Unidade
    IN IF x % Unidade = 0 THEN x ELSE (x \div Unidade + 1) * Unidade

\* The rest of one "while fila" iteration of a quantum-based strategy once
\* task r is chosen: remove it from fila, run it for at most q, then either
\* charge the overhead and reinsert it, or set its finish time.  A run is
\* followed up to clock MaxRelogio: only a run that never ends gets there.
Despachar(r, q) ==
    LET f == Remover(fila, r) IN
    /\ tempo_atual <= MaxRelogio * Unidade
    /\ tarefa' = r
    /\ IF objetos[r].tempo_restante > 0
       THEN LET o == ExecutarBurst(objetos[r], tempo_atual, TempoExec(objetos[r], q)) IN
            /\ objetos' = [objetos EXCEPT ![r] = o]
            /\ historico' = Anotar(r, objetos[r], o)
            /\ tempo_atual' = RelogioApos(o)
            /\ sobrecarga_total' = IF o.tempo_restante > 0
                                   THEN registrar_sobrecarga(sobrecarga_total, Sobrecarga)
                                   ELSE sobrecarga_total
            /\ fila' = IF o.tempo_restante > 0 THEN Reinserir(f, r, RelogioApos(o)) ELSE f
            /\ pc' = IF o.tempo_restante = 0 /\ f = <<>> THEN "retornou" ELSE "executando"
       ELSE /\ fila' = f
            /\ pc' = IF f = <<>> THEN "retornou" ELSE "executando"
            /\ UNCHANGED <<objetos, historico, tempo_atual, sobrecarga_total>>

\* The idle step: no queued task has arrived.
Ocioso(proximo) ==
    /\ tempo_atual' = proximo
    /\ UNCHANGED <<objetos, historico, sobrecarga_total, fila, tarefa, pc>>

\* EscalonadorRoundRobin.escalonar: one iteration of "while fila"
EscalonarRoundRobin ==
    /\ pc = "executando"
    /\ estrategia = "RoundRobin"
    /\ LET chegaram == Chegaram(fila, tempo_atual) IN
       IF Len(chegaram) = 0 THEN Ocioso(ProximaUnidade(tempo_atual))
       ELSE Despachar(chegaram[1], quantum)
    /\ UNCHANGED <<estrategia, carga, retorno, quantum, quantum_atual, tarefas, menor_tarefa, indice>>

\* sorting keys of which one is None raises TypeError as soon as two are compared
ChavesComparaveis(s, chave) ==
    Len(s) < 2 \/ \A i \in 1..Len(s) : chave[s[i]] # None

\* An exception leaves escalonar(): the run is over, nothing else changes.
Levantar ==
    /\ pc' = "erro"
    /\ UNCHANGED <<objetos, historico, tempo_atual, sobrecarga_total, fila, tarefa>>

\* Faulty variant of EscolherEDF: the largest deadline wins.  C5 does not
\* survive it.
EscolherEDFMaiorDeadline(chegaram) == Ordenar(chegaram, ChaveDeadline)[Len(chegaram)]

\* EDF's choice: the arrived task of least deadline.
EscolherEDF(chegaram) == Ordenar(chegaram, ChaveDeadline)[1]

\* EscalonadorEDF.escalonar: one iteration of "while fila"
EscalonarEDF ==
    /\ pc = "executando"
    /\ estrategia = "EDF"
    /\ LET chegaram == Chegaram(fila, tempo_atual) IN
       IF Len(chegaram) = 0 THEN Ocioso(ProximaUnidade(tempo_atual))
       ELSE IF ~ChavesComparaveis(chegaram, ChaveDeadline) THEN Levantar
       ELSE \E r \in {EscolherEDF(chegaram)} : Despachar(r, quantum)
    /\ UNCHANGED <<estrategia, carga, retorno, quantum, quantum_atual, tarefas, menor_tarefa, indice>>

\* Non-preemptive priority's choice: first of the arrived tasks sorted by
\* prioridade, reverse=True.
EscolherPrioridadeNP(chegaram) == OrdenarReverso(chegaram, ChavePrioridade)[1]

\* The dispatch as EscalonadorPrioridadeNP writes it.
ExecutarInteiraNP(o, agora) ==
    LET fim == agora + o.duracao
    IN [o EXCEPT !.tempo_inicio = agora,
                 !.tempo_inicio_execucao_atual = agora,
                 !.tempo_final = fim,
                 !.tempo_de_resposta = agora - o.tempo_chegada,
                 !.tempo_em_espera = agora - o.tempo_chegada,
                 !.tempo_final_execucao_atual = fim,
                 !.tempos_execucao = AnexarBurst(@, <<agora, fim>>)]

\* EscalonadorPrioridadeNP.escalonar: one iteration of "while (fila)"
EscalonarPrioridadeNP ==
    /\ pc = "executando"
    /\ estrategia = "PrioridadeNP"
    /\ LET chegaram == Chegaram(fila, tempo_atual) IN
       IF Len(chegaram) = 0 THEN Ocioso(tempo_atual + Unidade)
       ELSE LET r == EscolherPrioridadeNP(chegaram)
                o == ExecutarInteiraNP(objetos[r], tempo_atual)
                f == Remover(fila, r)
            IN /\ objetos' = [objetos EXCEPT ![r] = o]
               /\ tempo_atual' = o.tempo_final
               /\ tarefa' = r
               /\ fila' = f
               /\ historico' = Anotar(r, objetos[r], o)
               /\ pc' = IF f = <<>> THEN "retornou" ELSE "executando"
               /\ UNCHANGED sobrecarga_total
    /\ UNCHANGED <<estrategia, carga, retorno, quantum, quantum_atual, tarefas, menor_tarefa, indice>>

\* Faulty variant of EscolherPrioridadeP: the smallest prioridade value wins.
\* C19 does not survive it.
EscolherPrioridadePMenorValor(chegaram) == Ordenar(chegaram, ChavePrioridade)[1]

\* Preemptive priority's (and UG's) choice: last of the arrived tasks sorted
\* by prioridade ascending.
EscolherPrioridadeP(chegaram) == Ordenar(chegaram, ChavePrioridade)[Len(chegaram)]

\* EscalonadorPrioridadeP.escalonar: one iteration of "while fila"
EscalonarPrioridadeP ==
    /\ pc = "executando"
    /\ estrategia = "PrioridadeP"
    /\ LET chegaram == Chegaram(fila, tempo_atual) IN
       IF Len(chegaram) = 0 THEN Ocioso(ProximaUnidade(tempo_atual))
       ELSE \E r \in {EscolherPrioridadeP(chegaram)} : Despachar(r, quantum)
    /\ UNCHANGED <<estrategia, carga, retorno, quantum, quantum_atual, tarefas, menor_tarefa, indice>>

\* EscalonadorUG.urgencia compared with urg_max = 1/UrgMaxInv:
\* prioridade / (deadline - tempo_resta) > urg_max when deadline > tempo_resta
\* (both in tenths here), urg_max + 1 > urg_max otherwise.
Urgente(prioridade, deadline, tempo_resta) ==
    IF deadline > tempo_resta
    THEN UrgMaxInv * Unidade * prioridade > deadline - tempo_resta
    ELSE TRUE

\* Faulty variant of QuantumUG: a dispatch that is not urgent is granted the
\* raised quantum_atual.  C40 does not survive it.
QuantumUGSempreAtual(o) ==
    IF Urgente(o.prioridade, o.deadline, o.tempo_restante)
    THEN quantum_atual + Unidade ELSE quantum_atual

\* The quantum UG grants: an urgent dispatch first raises quantum_atual.
QuantumUG(o) ==
    IF Urgente(o.prioridade, o.deadline, o.tempo_restante)
    THEN quantum_atual + Unidade ELSE quantum

\* Faulty variant of QuantumAtualApos: an urgent dispatch that finishes its
\* task keeps the raised value.  C26 does not survive it.
QuantumAtualAposSemReset(o) ==
    IF o.tempo_restante > 0 /\ Urgente(o.prioridade, o.deadline, o.tempo_restante)
    THEN quantum_atual + Unidade
    ELSE quantum_atual

\* self.quantum_atual after the dispatch of task o: an urgent dispatch adds 1,
\* and sets it back to self.quantum when the burst finishes the task.
QuantumAtualApos(o) ==
    IF o.tempo_restante > 0 /\ Urgente(o.prioridade, o.deadline, o.tempo_restante)
    THEN (IF o.tempo_restante <= quantum_atual + Unidade
          THEN quantum ELSE quantum_atual + Unidade)
    ELSE quantum_atual

\* EscalonadorUG.escalonar: one iteration of "while fila"
EscalonarUG ==
    /\ pc = "executando"
    /\ estrategia = "UG"
    /\ LET chegaram == Chegaram(fila, tempo_atual) IN
       IF Len(chegaram) = 0
       THEN Ocioso(ProximaUnidade(tempo_atual)) /\ UNCHANGED quantum_atual
       ELSE LET r == EscolherPrioridadeP(chegaram)
                o == objetos[r]
            IN IF o.tempo_restante > 0 /\ o.deadline = None
               THEN \* "deadline > tempo_resta" raises TypeError, after the
                    \* task left fila and got its start times
                    LET inicio == Max(tempo_atual, o.tempo_chegada) IN
                    /\ pc' = "erro"
                    /\ fila' = Remover(fila, r)
                    /\ tarefa' = r
                    /\ objetos' = [objetos EXCEPT ![r] =
                           [o EXCEPT !.tempo_inicio_execucao_atual = inicio,
                                     !.tempo_inicio = IF @ = None THEN inicio ELSE @]]
                    /\ UNCHANGED <<historico, tempo_atual, sobrecarga_total, quantum_atual>>
               ELSE /\ Despachar(r, QuantumUG(o))
                    /\ quantum_atual' = QuantumAtualApos(o)
    /\ UNCHANGED <<estrategia, carga, retorno, quantum, tarefas, menor_tarefa, indice>>

\* ------------------------------------- shortest remaining time with aging
\* The limite() methods return mean tempo_restante + an estimate of the
\* arrival time.  Each operator below gives that value times 2 * Len(l), a
\* whole number, so that "tempo_aguardando > limite" is compared exactly.
SomaRestante(l) ==
    LET S[i \in 0..Len(l)] == IF i = 0 THEN 0 ELSE S[i-1] + objetos[l[i]].tempo_restante
    IN S[Len(l)]

SomaChegada(l) ==
    LET S[i \in 0..Len(l)] == IF i = 0 THEN 0 ELSE S[i-1] + objetos[l[i]].tempo_chegada
    IN S[Len(l)]

\* mediana_chegada, times 2 * Len(l): read at the middle position(s) of l
MedianaChegada2n(l) ==
    LET n == Len(l) IN
    IF n % 2 = 0
    THEN n * (objetos[l[n \div 2]].tempo_chegada + objetos[l[n \div 2 + 1]].tempo_chegada)
    ELSE 2 * n * objetos[l[n \div 2 + 1]].tempo_chegada

\* chegada_total / len, times 2 * Len(l)
MediaChegada2n(l) == 2 * SomaChegada(l)

\* (min_chegada + max_chegada) // 2 in whole time units, times 2 * Len(l)
IntervaloChegada2n(l) ==
    LET cs == {objetos[l[i]].tempo_chegada : i \in 1..Len(l)}
        mn == CHOOSE c \in cs : \A d \in cs : c <= d
        mx == CHOOSE c \in cs : \A d \in cs : c >= d
    IN 2 * Len(l) * (((mn + mx) \div (2 * Unidade)) * Unidade)

Min3(a, b, c) == Min(a, Min(b, c))
\* Faulty variant of Max3: the first of the three estimates is returned.
\* C39 does not survive it.
Max3Primeiro(a, b, c) == a

Max3(a, b, c) == Max(a, Max(b, c))

\* <Variant>.limite(tarefas_que_chegaram), times 2 * Len(l)
limite(e, l) ==
    IF Len(l) = 0 THEN 0
    ELSE 2 * SomaRestante(l)
         + CASE e = "FutureVision" -> MedianaChegada2n(l)
             [] e = "FutureVisionMedia" -> MediaChegada2n(l)
             [] e = "FutureVisionMediaIntervalo" -> IntervaloChegada2n(l)
             [] e = "FutureVisionMin" ->
                   Min3(MediaChegada2n(l), IntervaloChegada2n(l), MedianaChegada2n(l))
             [] e = "FutureVisionMax" ->
                   Max3(MediaChegada2n(l), IntervaloChegada2n(l), MedianaChegada2n(l))

\* tempo_aguardando of task t in the selection scan
TempoAguardando(o, agora) ==
    IF o.tempo_final_execucao_atual # None
    THEN agora - o.tempo_final_execucao_atual
    ELSE agora - o.tempo_chegada

\* Faulty variant of EscolherFutureVision: the waiting times are ignored and
\* the task of least tempo_restante always wins.  C27 does not survive it.
EscolherFutureVisionSemEspera(e, chegaram) == Ordenar(chegaram, ChaveRestante)[1]

\* The choice of the FutureVision family: the arrived tasks sorted by
\* tempo_restante; the first of them that waited longer than limite, else
\* the first.
EscolherFutureVision(e, chegaram) ==
    LET l == Ordenar(chegaram, ChaveRestante)
        n == Len(l)
        acima == {i \in 1..n :
                    2 * n * TempoAguardando(objetos[l[i]], tempo_atual) > limite(e, l)}
    IN IF acima = {} THEN l[1]
       ELSE l[CHOOSE i \in acima : \A j \in acima : i <= j]

\* The "while fila" iteration shared by the five FutureVision classes.
PassoFutureVision(e) ==
    /\ pc = "executando"
    /\ estrategia = e
    /\ LET chegaram == Chegaram(fila, tempo_atual) IN
       IF Len(chegaram) = 0 THEN Ocioso(ProximaUnidade(tempo_atual))
       ELSE \E r \in {EscolherFutureVision(e, chegaram)} : Despachar(r, quantum)
    /\ UNCHANGED <<estrategia, carga, retorno, quantum, quantum_atual, tarefas, menor_tarefa, indice>>

\* EscalonadorFutureVision.escalonar
EscalonarFutureVision == PassoFutureVision("FutureVision")
\* EscalonadorFutureVisionMedia.escalonar
EscalonarFutureVisionMedia == PassoFutureVision("FutureVisionMedia")
\* EscalonadorFutureVisionMediaIntervalo.escalonar
EscalonarFutureVisionMediaIntervalo == PassoFutureVision("FutureVisionMediaIntervalo")
\* EscalonadorFutureVisionMin.escalonar
EscalonarFutureVisionMin == PassoFutureVision("FutureVisionMin")
\* EscalonadorFutureVisionMax.escalonar
EscalonarFutureVisionMax == PassoFutureVision("FutureVisionMax")

\* ----------------------------------------------------------------- metrics
\* sum(lista)
Soma(lista) ==
    LET S[i \in 0..Len(lista)] == IF i = 0 THEN 0 ELSE S[i-1] + lista[i]
    IN S[Len(lista)]

\* The list a metric's loop builds: valor[r] for every task r of self.tarefas
\* whose tempo_final is set, in list order.
DasConcluidas(valor) ==
    LET L[i \in 0..Len(tarefas)] ==
            IF i = 0 THEN <<>>
            ELSE IF objetos[tarefas[i]].tempo_final # None
                 THEN Append(L[i-1], valor[tarefas[i]])
                 ELSE L[i-1]
    IN L[Len(tarefas)]

\* What a metric returns: the quotient sum(lista) / len(lista), kept as the
\* pair <<sum, len>> so that the mean is exact, or the empty tuple for the
\* "return None" of an empty list.
Media(lista) == IF Len(lista) > 0 THEN <<Soma(lista), Len(lista)>> ELSE <<>>

\* Faulty variant of calcular_turnaround_medio: the sum over the finished
\* tasks is divided by the number of all tasks.  C24 does not survive it.
calcular_turnaround_medio_sobre_todas ==
    LET lista == DasConcluidas([r \in Refs |->
                     objetos[r].tempo_final - objetos[r].tempo_chegada])
    IN <<Soma(lista), Len(tarefas)>>

\* EscalonadorCAV.calcular_turnaround_medio
calcular_turnaround_medio ==
    Media(DasConcluidas([r \in Refs |->
              objetos[r].tempo_final - objetos[r].tempo_chegada]))

\* EscalonadorCAV.calcular_tempo_em_espera_medio
calcular_tempo_em_espera_medio ==
    Media(DasConcluidas([r \in Refs |->
              objetos[r].tempo_final - objetos[r].tempo_chegada - objetos[r].duracao]))

\* A caller invokes executar(q) on one of the tasks, outside any escalonar()
\* call (the schedulers themselves never call it).  retorno keeps the latest
\* call: its number, its receiver, its argument and the value it returned.
Executar ==
    /\ pc \in {"pronto", "retornou"}
    /\ retorno.n < MaxChamadas
    /\ \E r \in Refs : \E q \in {0} \cup Quanta :
         LET x == executar(objetos[r], q) IN
         /\ objetos' = [objetos EXCEPT ![r] = x.tarefa]
         /\ retorno' = [n |-> retorno.n + 1, ref |-> r, quantum |-> q,
                        valor |-> x.retorno]
    /\ UNCHANGED <<estrategia, carga, quantum, quantum_atual, tarefas, menor_tarefa,
                   sobrecarga_total, tempo_atual, fila, tarefa, indice, pc, historico>>

Next ==
    \/ AdicionarTarefa
    \/ IniciarEscalonamento
    \/ EscalonarFIFO
    \/ EscalonarSJF
    \/ EscalonarRoundRobin
    \/ EscalonarEDF
    \/ EscalonarPrioridadeNP
    \/ EscalonarPrioridadeP
    \/ EscalonarUG
    \/ EscalonarFutureVision
    \/ EscalonarFutureVisionMedia
    \/ EscalonarFutureVisionMediaIntervalo
    \/ EscalonarFutureVisionMin
    \/ EscalonarFutureVisionMax

Spec == Init /\ [][Next]_vars

\* Schedulers on which escalonar() may be called again after it returned.
NextRepetida == Next \/ EscalonarDeNovo

SpecRepetida == InitCurta /\ [][NextRepetida]_vars

\* The same on the general workload, priorities and deadlines included.
SpecRepetidaGeral == Init /\ [][NextRepetida]_vars

\* Schedulers and tasks as the unchecked constructors admit them.
SpecLivre == InitLivre /\ [][Next]_vars

\* Schedulers whose tasks a caller may also consume directly with executar():
\* a run-to-completion one and a quantum-based one, on the short workload.
InitExecutar == InitCurta /\ estrategia \in {"FIFO", "RoundRobin"}

NextExecutar ==
    \/ AdicionarTarefa
    \/ IniciarEscalonamento
    \/ EscalonarFIFO
    \/ EscalonarRoundRobin
    \/ Executar

SpecExecutar == InitExecutar /\ [][NextExecutar]_vars

\* Runs on the workload with gaps.
SpecOcio == InitOcio /\ [][Next]_vars

\* The worked scenarios of the specification as the workload.
SpecCenarios == InitCenarios /\ [][Next]_vars

\* escalonar() is one sequential call: a loop iteration that can run does run.
SpecJusta == InitCurta /\ [][Next]_vars /\ WF_vars(Next)
\* ======================================================================
\* Properties
\* ======================================================================
Cauda(s) == s[Len(s)]

\* sum of (end - start) over a burst list
SomaBursts(l) ==
    LET S[i \in 0..Len(l)] == IF i = 0 THEN 0 ELSE S[i-1] + (l[i][2] - l[i][1])
    IN S[Len(l)]

Terminadas == {r \in Refs : objetos[r].tempo_final # None}

\* C1: when escalonar() has returned, the burst durations of every task add
\* up to the task's duracao, under every strategy.
C1_SomaDosBurstsIgualDuracao ==
    pc = "retornou" =>
        \A r \in Refs : SomaBursts(objetos[r].tempos_execucao) = objetos[r].duracao

\* C2: under FIFO, SJF and non-preemptive priority every task that has a
\* finish time has exactly one recorded burst.
C2_UmBurstPorTarefaTerminada ==
    estrategia \in NaoPreemptivas =>
        \A r \in Terminadas : Len(objetos[r].tempos_execucao) = 1

\* C3: for every task whose finish time is set, turnaround
\* (tempo_final - tempo_chegada) is at least duracao.
C3_TurnaroundCobreDuracao ==
    \A r \in Terminadas :
        objetos[r].tempo_final - objetos[r].tempo_chegada >= objetos[r].duracao

\* C3 witness: a finished run in which one task finished exactly duracao after
\* its arrival and another one had to wait.
C3_Testemunha ==
    /\ pc = "retornou"
    /\ \E r \in Terminadas :
         objetos[r].tempo_final - objetos[r].tempo_chegada = objetos[r].duracao
    /\ \E r \in Terminadas :
         /\ objetos[r].duracao > 0
         /\ objetos[r].tempo_final - objetos[r].tempo_chegada > objetos[r].duracao

\* C4: under Round-Robin no burst is longer than the quantum, every burst but
\* a task's last one is exactly one quantum, and a shorter burst ends its task.
C4_BurstLimitadoPeloQuantum ==
    estrategia = "RoundRobin" =>
        \A r \in Refs :
            LET l == objetos[r].tempos_execucao IN
            \A k \in 1..Len(l) :
                /\ l[k][2] - l[k][1] <= quantum
                /\ k < Len(l) => l[k][2] - l[k][1] = quantum
                /\ l[k][2] - l[k][1] < quantum => objetos[r].tempo_restante = 0

\* C4 witness: a Round-Robin task that ran a full quantum, was preempted, and
\* ended with a burst shorter than the quantum.
C4_Testemunha ==
    /\ estrategia = "RoundRobin"
    /\ \E r \in Terminadas :
         LET l == objetos[r].tempos_execucao IN
         /\ Len(l) = 2
         /\ l[1][2] - l[1][1] = quantum
         /\ l[2][2] - l[2][1] < quantum

\* A step of EDF's loop that selects a task.
SelecaoEDF ==
    /\ pc = "executando"
    /\ estrategia = "EDF"
    /\ Len(Chegaram(fila, tempo_atual)) > 0
    /\ pc' # "erro"

Posicao(f, r) == CHOOSE k \in 1..Len(f) : f[k] = r

\* C5: at every EDF selection step the task dispatched is queued and arrived,
\* no arrived queued task has a smaller deadline, and of the arrived tasks
\* with the same deadline it is the first in queue order.
C5_EDFMenorDeadline ==
    [][SelecaoEDF =>
        LET chegaram == Chegaram(fila, tempo_atual)
            em_fila == {fila[k] : k \in 1..Len(fila)}
        IN /\ tarefa' \in em_fila
           /\ objetos[tarefa'].tempo_chegada <= tempo_atual
           /\ historico' # historico => Cauda(historico').ref = tarefa'
           /\ \A k \in 1..Len(chegaram) :
                /\ objetos[tarefa'].deadline <= objetos[chegaram[k]].deadline
                /\ objetos[tarefa'].deadline = objetos[chegaram[k]].deadline
                     => Posicao(fila, tarefa') <= Posicao(fila, chegaram[k])
      ]_vars

\* C5 witness: EDF's first burst went to the task queued second, because its
\* deadline was the smaller one of two arrived tasks.
C5_Testemunha ==
    /\ estrategia = "EDF"
    /\ Len(tarefas) = 2
    /\ Len(historico) > 0
    /\ historico[1].ref = tarefas[2]
    /\ objetos[tarefas[1]].tempo_chegada = objetos[tarefas[2]].tempo_chegada
    /\ objetos[tarefas[1]].deadline # None
    /\ objetos[tarefas[2]].deadline # None
    /\ objetos[tarefas[2]].deadline < objetos[tarefas[1]].deadline

\* The workload of a run, as <<nome, duracao, tempo_chegada>> in units.
Entrada == [r \in Refs |-> <<objetos[r].nome, objetos[r].duracao, objetos[r].tempo_chegada>>]

PorNome(n) == CHOOSE r \in Refs : objetos[r].nome = n

\* the dispatch log as <<nome, start, end>>
Despachos == [k \in 1..Len(historico) |->
                <<objetos[historico[k].ref].nome, historico[k].inicio, historico[k].fim>>]

CenarioSJF ==
    /\ carga = "cenario"
    /\ estrategia = "SJF"
    /\ pc = "retornou"
    /\ Len(objetos) = 3
    /\ {Entrada[r] : r \in Refs} =
         {<<"A", 4 * Unidade, 0>>, <<"B", 2 * Unidade, 0>>, <<"C", Unidade, Unidade>>}

\* C7: SJF on A(4, arrival 0), B(2, arrival 0), C(1, arrival 1), added in any
\* order, runs B [0,2), C [2,3), A [3,7); finish times B=2, C=3, A=7 and
\* turnarounds B=2, C=2, A=7.
C7_CenarioSJF ==
    CenarioSJF =>
        /\ Despachos = << <<"B", 0, 20>>, <<"C", 20, 30>>, <<"A", 30, 70>> >>
        /\ objetos[PorNome("A")].tempos_execucao = << <<30, 70>> >>
        /\ objetos[PorNome("B")].tempos_execucao = << <<0, 20>> >>
        /\ objetos[PorNome("C")].tempos_execucao = << <<20, 30>> >>
        /\ objetos[PorNome("A")].tempo_final = 70
        /\ objetos[PorNome("B")].tempo_final = 20
        /\ objetos[PorNome("C")].tempo_final = 30
        /\ objetos[PorNome("A")].tempo_final - objetos[PorNome("A")].tempo_chegada = 70
        /\ objetos[PorNome("B")].tempo_final - objetos[PorNome("B")].tempo_chegada = 20
        /\ objetos[PorNome("C")].tempo_final - objetos[PorNome("C")].tempo_chegada = 20

\* C7 witness: the SJF scenario has run to its end, A added first.
C7_Testemunha == CenarioSJF /\ objetos[1].nome = "A" /\ objetos[2].nome = "B"

CenarioRR ==
    /\ carga = "cenario"
    /\ estrategia = "RoundRobin"
    /\ quantum = 2 * Unidade
    /\ pc = "retornou"
    /\ Len(objetos) = 2
    /\ Entrada = << <<"A", 5 * Unidade, 0>>, <<"B", 3 * Unidade, 0>> >>

\* C8 as claimed: Round-Robin with quantum 2 on A(5, arrival 0), B(3, arrival
\* 0) dispatches A[0,2), B[2,4), A[4,6), B[6.3,7.3), A[7.3,8.3); B finishes at
\* 7.3 and A at 8.3.
C8_CenarioRR_Original ==
    CenarioRR =>
        /\ Despachos = << <<"A", 0, 20>>, <<"B", 20, 40>>, <<"A", 40, 60>>,
                          <<"B", 63, 73>>, <<"A", 73, 83>> >>
        /\ objetos[2].tempo_final = 73
        /\ objetos[1].tempo_final = 83

\* C8 as amended: every preempted burst is followed by the 0.3 overhead, so
\* the dispatches are A[0,2), B[2.3,4.3), A[4.6,6.6), B[6.9,7.9), A[7.9,8.9);
\* B finishes at 7.9 and A at 8.9, and the overhead total is 0.9.
C8_CenarioRR ==
    CenarioRR =>
        /\ Despachos = << <<"A", 0, 20>>, <<"B", 23, 43>>, <<"A", 46, 66>>,
                          <<"B", 69, 79>>, <<"A", 79, 89>> >>
        /\ objetos[2].tempo_final = 79
        /\ objetos[1].tempo_final = 89
        /\ sobrecarga_total = 3 * Sobrecarga

\* C8 witness: the Round-Robin scenario has run to its end.
C8_Testemunha == CenarioRR /\ Len(historico) = 5

NaoTerminais == {k \in 1..Len(historico) : historico[k].restante > 0}

\* C9: in every preemptive strategy the overhead total is 0.3 times the
\* number of bursts that left their task unfinished, and the burst dispatched
\* after such a burst starts no earlier than 0.3 after its end; after a burst
\* that finished its task nothing is charged.
C9_SobrecargaPorPreempcao ==
    estrategia \in Preemptivas =>
        /\ sobrecarga_total = Sobrecarga * Cardinality(NaoTerminais)
        /\ \A k \in NaoTerminais :
             k < Len(historico) => historico[k+1].inicio >= historico[k].fim + Sobrecarga
        /\ Len(historico) > 0 =>
             tempo_atual >= Cauda(historico).fim
                            + (IF Cauda(historico).restante > 0 THEN Sobrecarga ELSE 0)

\* C9 witness: a preemptive run with two preemptions and a finishing burst
\* that followed the first of them immediately.
C9_Testemunha ==
    /\ estrategia \in Preemptivas
    /\ pc = "retornou"
    /\ sobrecarga_total = 2 * Sobrecarga
    /\ \E k \in NaoTerminais :
         /\ k < Len(historico)
         /\ historico[k+1].inicio = historico[k].fim + Sobrecarga
         /\ historico[k+1].restante = 0

\* C10: every call of escalonar() terminates (returns or raises).
C10_EscalonarTermina == <>(pc \in {"retornou", "erro"})

\* C11: when escalonar() has returned, every task of the scheduler has its
\* finish time set, zero-duration tasks included.
C11_TodasTerminadas ==
    pc = "retornou" => \A k \in 1..Len(tarefas) : objetos[tarefas[k]].tempo_final # None

\* A step in which the code assigns tempo_final of task r: the value changes,
\* or a run-to-completion dispatch of r was recorded (it always assigns).
AtribuiuFinal(r) ==
    \/ objetos'[r].tempo_final # objetos[r].tempo_final
    \/ /\ estrategia \in NaoPreemptivas
       /\ Len(objetos'[r].tempos_execucao) > Len(objetos[r].tempos_execucao)

\* C12: under every strategy a task's tempo_final is assigned only once (it
\* was not set before the step that assigns it), and the task's
\* tempo_restante is 0 at that moment.
C12_FinalAtribuidoUmaVez ==
    [][\A r \in Refs :
         AtribuiuFinal(r) => /\ objetos[r].tempo_final = None
                             /\ objetos'[r].tempo_restante = 0
      ]_vars

\* C13: a task's tempo_inicio, once set, is never changed by a later step,
\* and it is the start of the task's first recorded burst.
C13_InicioNuncaReescrito ==
    /\ [](\A r \in Refs :
            objetos[r].tempo_inicio # None /\ Len(objetos[r].tempos_execucao) > 0
              => objetos[r].tempo_inicio = objetos[r].tempos_execucao[1][1])
    /\ [][\A r \in Refs :
            objetos[r].tempo_inicio # None
              => objetos'[r].tempo_inicio = objetos[r].tempo_inicio]_vars

\* C14: once a task's tempo_final is set, no later step (of the same
\* escalonar() call or of a later one) changes its tempo_final, tempo_inicio,
\* tempo_restante, tempo_em_espera or burst list.
C14_TerminadaImutavel ==
    [][\A r \in Refs :
         objetos[r].tempo_final # None
           => /\ objetos'[r].tempo_final = objetos[r].tempo_final
              /\ objetos'[r].tempo_inicio = objetos[r].tempo_inicio
              /\ objetos'[r].tempo_restante = objetos[r].tempo_restante
              /\ objetos'[r].tempo_em_espera = objetos[r].tempo_em_espera
              /\ objetos'[r].tempos_execucao = objetos[r].tempos_execucao
      ]_vars

\* C15: a step that hands adicionar_tarefa a task of negative duracao or
\* negative tempo_chegada leaves self.tarefas unchanged; any other task is
\* appended at the end of self.tarefas.
C15_AdmissaoRejeitaNegativos ==
    [][Len(objetos') > Len(objetos) =>
         LET t == Cauda(objetos') IN
         IF t.duracao < 0 \/ t.tempo_chegada < 0
         THEN tarefas' = tarefas
         ELSE tarefas' = Append(tarefas, Len(objetos'))
      ]_vars

\* C16: no preemptive scheduler exists with a quantum <= 0 (its construction
\* fails), so no run is ever started with one.
C16_QuantumPositivo == estrategia \in Preemptivas => quantum > 0

\* C17: under EDF and UG a missing deadline never makes the run fail: no
\* run of these strategies ends in an error state.
C17_DeadlineAusenteNaoFalha == estrategia \in {"EDF", "UG"} => pc # "erro"

\* A step of the non-preemptive priority loop that selects a task.
SelecaoPrioridadeNP ==
    /\ pc = "executando"
    /\ estrategia = "PrioridadeNP"
    /\ Len(Chegaram(fila, tempo_atual)) > 0

\* C18: at every selection step of non-preemptive priority the dispatched
\* task is queued and arrived, no arrived queued task has a smaller prioridade
\* value, and the task runs to completion in that one burst.
C18_PrioridadeNPMenorValor ==
    [][SelecaoPrioridadeNP =>
        LET chegaram == Chegaram(fila, tempo_atual)
            depois == objetos'[tarefa']
        IN /\ \E k \in 1..Len(chegaram) : chegaram[k] = tarefa'
           /\ \A k \in 1..Len(chegaram) :
                objetos[tarefa'].prioridade <= objetos[chegaram[k]].prioridade
           /\ depois.tempos_execucao =
                << <<tempo_atual, tempo_atual + objetos[tarefa'].duracao>> >>
           /\ depois.tempo_final = tempo_atual + objetos[tarefa'].duracao
      ]_vars

\* A step of the preemptive priority loop that selects a task.
SelecaoPrioridadeP ==
    /\ pc = "executando"
    /\ estrategia = "PrioridadeP"
    /\ Len(Chegaram(fila, tempo_atual)) > 0

C20_SJFSoDespachaChegadas ==
    [][(estrategia = "SJF") =>
        \A r \in Refs :
            Len(objetos'[r].tempos_execucao) > Len(objetos[r].tempos_execucao)
              => LET chegaram == Chegaram(fila, tempo_atual) IN
                 /\ \E k \in 1..Len(chegaram) : chegaram[k] = r
                 /\ \A k \in 1..Len(chegaram) :
                      objetos[r].duracao <= objetos[chegaram[k]].duracao
      ]_vars

TodosBursts == {<<r, k>> \in Refs \X (1..MaxBursts) : k <= Len(objetos[r].tempos_execucao)}

\* Two half-open intervals [a[1], a[2]) and [b[1], b[2]) share an instant.
Sobrepoe(a, b) == Max(a[1], b[1]) < Min(a[2], b[2])

\* C22: under every strategy no two recorded bursts (of the same task or of
\* different tasks) overlap as half-open intervals, and within each task's
\* burst list every burst starts no earlier than the burst before it ended.
C22_BurstsNaoSobrepostos ==
    /\ \A x \in TodosBursts : \A y \in TodosBursts :
         x # y => ~Sobrepoe(objetos[x[1]].tempos_execucao[x[2]],
                            objetos[y[1]].tempos_execucao[y[2]])
    /\ \A r \in Refs :
         LET l == objetos[r].tempos_execucao IN
         /\ \A k \in 1..Len(l) : l[k][1] <= l[k][2]
         /\ \A k \in 1..(Len(l) - 1) : l[k][2] <= l[k+1][1]

\* C22 witness: a finished preemptive run in which a task ran two bursts and
\* another task ran between them.
C22_Testemunha ==
    /\ estrategia \in Preemptivas
    /\ pc = "retornou"
    /\ \E r \in Refs : \E s \in Refs \ {r} :
         /\ Len(objetos[r].tempos_execucao) >= 2
         /\ Len(objetos[s].tempos_execucao) >= 1
         /\ objetos[r].tempos_execucao[1][2] <= objetos[s].tempos_execucao[1][1]
         /\ objetos[s].tempos_execucao[1][2] <= objetos[r].tempos_execucao[2][1]
         /\ objetos[s].tempos_execucao[1][1] < objetos[s].tempos_execucao[1][2]

\* C23: in every reachable state of every strategy each task has
\* 0 <= tempo_restante <= duracao, and no step increases a task's
\* tempo_restante.
C23_RestanteLimitadoEMonotono ==
    /\ [](\A r \in Refs :
            /\ 0 <= objetos[r].tempo_restante
            /\ objetos[r].tempo_restante <= objetos[r].duracao)
    /\ [][\A r \in Refs :
            objetos'[r].tempo_restante <= objetos[r].tempo_restante]_vars

\* C23 witness: a preemptive run in which one task has been brought down to
\* tempo_restante 0 in two bursts while another one is part-way through.
C23_Testemunha ==
    /\ estrategia \in Preemptivas
    /\ \E r \in Refs : \E s \in Refs :
         /\ objetos[r].tempo_restante = 0
         /\ Len(objetos[r].tempos_execucao) = 2
         /\ 0 < objetos[s].tempo_restante
         /\ objetos[s].tempo_restante < objetos[s].duracao

\* The sum of valor[r] over the references in the set S.
RECURSIVE SomaSobre(_, _)
SomaSobre(valor, S) ==
    IF S = {} THEN 0
    ELSE LET r == CHOOSE x \in S : TRUE
         IN valor[r] + SomaSobre(valor, S \ {r})

\* The tasks of the scheduler whose finish time is set.
Concluidas == {r \in {tarefas[k] : k \in 1..Len(tarefas)} : objetos[r].tempo_final # None}

\* C24: calcular_turnaround_medio is the mean of tempo_final - tempo_chegada
\* and calcular_tempo_em_espera_medio the mean of tempo_final - tempo_chegada
\* - duracao, each over exactly the tasks whose tempo_final is set; when no
\* task has one, both are absent rather than 0.
C24_MetricasSobreConcluidas ==
    IF Concluidas = {}
    THEN /\ calcular_turnaround_medio = <<>>
         /\ calcular_tempo_em_espera_medio = <<>>
    ELSE /\ calcular_turnaround_medio =
              << SomaSobre([r \in Refs |-> objetos[r].tempo_final - objetos[r].tempo_chegada],
                           Concluidas),
                 Cardinality(Concluidas) >>
         /\ calcular_tempo_em_espera_medio =
              << SomaSobre([r \in Refs |-> objetos[r].tempo_final - objetos[r].tempo_chegada
                                           - objetos[r].duracao], Concluidas),
                 Cardinality(Concluidas) >>

\* C24 witness: a returned run that left one task without a finish time and
\* finished two others, one of which had to wait.
C24_Testemunha ==
    /\ pc = "retornou"
    /\ Len(tarefas) = 3
    /\ Cardinality(Concluidas) = 2
    /\ calcular_tempo_em_espera_medio[1] > 0

\* C25: a call executar(quantum) with quantum >= 0 reduces the task's
\* tempo_restante by min(tempo_restante, quantum), returns that amount,
\* leaves tempo_restante at 0 or above, and changes no other field of the
\* task and no other task.
C25_ExecutarSoConsome ==
    [][retorno'.n > retorno.n =>
         LET r == retorno'.ref
             antes == objetos[r]
             consumido == Min(antes.tempo_restante, retorno'.quantum)
         IN /\ retorno'.quantum >= 0
            /\ retorno'.valor = consumido
            /\ objetos'[r].tempo_restante = antes.tempo_restante - consumido
            /\ objetos'[r].tempo_restante >= 0
            /\ objetos' = [objetos EXCEPT ![r].tempo_restante = objetos'[r].tempo_restante]
      ]_vars

\* C25 witness: executar was called on a task that had already run, with a
\* quantum larger than what was left of it, and returned the positive rest.
C25_Testemunha ==
    /\ retorno.n > 0
    /\ retorno.valor > 0
    /\ retorno.valor < retorno.quantum
    /\ objetos[retorno.ref].tempo_restante = 0
    /\ objetos[retorno.ref].tempos_execucao # <<>>

\* C26: under UG quantum_atual changes in two ways only.  A dispatch whose
\* urgency exceeds urg_max runs for min(tempo_restante, quantum_atual + 1)
\* and leaves quantum_atual one higher, or back at the base quantum when
\* the burst finished the task; a dispatch that is not urgent runs for
\* min(tempo_restante, quantum) and leaves quantum_atual as it was, raised or
\* not; every other step leaves it as it was.
C26_CatracaDoQuantum ==
    [][(estrategia = "UG") =>
         IF Len(historico') > Len(historico)
         THEN LET h == Cauda(historico')
                  antes == objetos[h.ref]
              IN IF Urgente(antes.prioridade, antes.deadline, antes.tempo_restante)
                 THEN /\ h.fim - h.inicio = Min(antes.tempo_restante, quantum_atual + Unidade)
                      /\ quantum_atual' = IF h.restante = 0 THEN quantum
                                          ELSE quantum_atual + Unidade
                 ELSE /\ h.fim - h.inicio = Min(antes.tempo_restante, quantum)
                      /\ quantum_atual' = quantum_atual
         ELSE quantum_atual' = quantum_atual
      ]_vars

\* C26 witness: a UG run whose first dispatch was urgent and raised
\* quantum_atual, and whose second dispatch was not urgent, finished its task
\* and left quantum_atual raised.
C26_Testemunha ==
    /\ estrategia = "UG"
    /\ Len(historico) = 2
    /\ quantum_atual = quantum + Unidade
    /\ historico[1].fim - historico[1].inicio = quantum + Unidade
    /\ historico[1].restante > 0
    /\ historico[2].restante = 0
    /\ LET o == objetos[historico[2].ref]
       IN ~Urgente(o.prioridade, o.deadline,
                   historico[2].restante + historico[2].fim - historico[2].inicio)

\* A step of a FutureVision loop that selects a task.
SelecaoFutureVision ==
    /\ pc = "executando"
    /\ estrategia \in FutureVisions
    /\ Len(Chegaram(fila, tempo_atual)) > 0

\* C27: at every selection step of each of the five FutureVision variants the
\* dispatched task is, scanning the arrived queued tasks in ascending
\* tempo_restante order, the first one whose wait (clock minus the end of
\* its last burst, or minus its arrival if it never ran) is strictly above
\* the threshold of the arrived tasks of that step; when no wait is above
\* the threshold, it is the first of the scan, a task of least tempo_restante.
C27_FutureVisionEscolha ==
    [][SelecaoFutureVision =>
        LET l == Ordenar(Chegaram(fila, tempo_atual), ChaveRestante)
            n == Len(l)
            espera(i) == IF objetos[l[i]].tempos_execucao # <<>>
                         THEN tempo_atual - Cauda(objetos[l[i]].tempos_execucao)[2]
                         ELSE tempo_atual - objetos[l[i]].tempo_chegada
            excede(i) == 2 * n * espera(i) > limite(estrategia, l)
        IN \E i \in 1..n :
             /\ tarefa' = l[i]
             /\ \A j \in 1..n : objetos[l[1]].tempo_restante <= objetos[l[j]].tempo_restante
             /\ IF \E j \in 1..n : excede(j)
                THEN excede(i) /\ \A j \in 1..(i-1) : ~excede(j)
                ELSE i = 1
      ]_vars

\* C27 witness: a FutureVision dispatch that went to a task that had waited
\* longer than the threshold although another arrived task, still queued, had
\* less left to run.
C27_Testemunha ==
    /\ estrategia \in FutureVisions
    /\ Len(historico) > 0
    /\ LET h == Cauda(historico) IN
       /\ tarefa = h.ref
       /\ tempo_atual = h.fim + (IF h.restante > 0 THEN Sobrecarga ELSE 0)
       /\ \E k \in 1..Len(fila) :
            /\ fila[k] # h.ref
            /\ objetos[fila[k]].tempo_chegada <= h.inicio
            /\ objetos[fila[k]].tempo_restante < h.restante + (h.fim - h.inicio)

\* The sample median of the arrival times of the tasks in l, times
\* 2 * Len(l): the middle value, or the mean of the two middle values, of the
\* arrival times sorted by arrival time.
MedianaAmostralChegada2n(l) ==
    LET n == Len(l)
        c == Ordenar(l, ChaveChegada)
    IN IF n % 2 = 0
       THEN n * (objetos[c[n \div 2]].tempo_chegada + objetos[c[n \div 2 + 1]].tempo_chegada)
       ELSE 2 * n * objetos[c[n \div 2 + 1]].tempo_chegada

\* C28: at every selection step of EscalonadorFutureVision, limite of the
\* arrived list is the mean tempo_restante of the arrived tasks plus the
\* sample median of their arrival times.
C28_LimiteMedianaAmostral ==
    (pc = "executando" /\ estrategia = "FutureVision"
       /\ Len(Chegaram(fila, tempo_atual)) > 0) =>
        LET l == Ordenar(Chegaram(fila, tempo_atual), ChaveRestante)
        IN limite("FutureVision", l) = 2 * SomaRestante(l) + MedianaAmostralChegada2n(l)

\* The key by which a strategy ranks the arrived tasks.
ChaveDaEstrategia ==
    CASE estrategia = "SJF" -> ChaveDuracao
      [] estrategia = "EDF" -> ChaveDeadline
      [] estrategia \in {"PrioridadeNP", "PrioridadeP", "UG"} -> ChavePrioridade
      [] OTHER -> ChaveRestante

\* A step in which a key-ranking strategy selects a task by its key: some
\* queued task has arrived, the sort does not fail and, in the FutureVision
\* family, no wait is above the threshold.
SelecaoPorChave ==
    /\ pc = "executando"
    /\ estrategia # "FIFO" /\ estrategia # "RoundRobin"
    /\ Len(Chegaram(fila, tempo_atual)) > 0
    /\ estrategia = "EDF" => pc' # "erro"
    /\ estrategia \in FutureVisions =>
         LET l == Ordenar(Chegaram(fila, tempo_atual), ChaveRestante)
         IN \A i \in 1..Len(l) :
              2 * Len(l) * TempoAguardando(objetos[l[i]], tempo_atual)
                <= limite(estrategia, l)

\* C29: in every strategy that ranks the arrived tasks by a key, the task
\* dispatched comes, in queue order, before every other arrived task that has
\* the same key.
C29_EmpateNaOrdemDaFila ==
    [][SelecaoPorChave =>
        LET chegaram == Chegaram(fila, tempo_atual)
        IN \A k \in 1..Len(chegaram) :
             ChaveDaEstrategia[chegaram[k]] = ChaveDaEstrategia[tarefa']
               => Posicao(fila, tarefa') <= Posicao(fila, chegaram[k])
      ]_vars

\* C30: in every preemptive strategy a dispatch that records a burst on a
\* task adds to the task's tempo_em_espera the gap between the start of that
\* burst and the end of the task's previous burst, or between that start and
\* the task's arrival when it is the task's first burst.
C30_EsperaAcumulaIntervalos ==
    [][(estrategia \in Preemptivas) =>
        \A r \in Refs :
            Len(objetos'[r].tempos_execucao) > Len(objetos[r].tempos_execucao) =>
                LET antes == objetos[r]
                    inicio == Cauda(objetos'[r].tempos_execucao)[1]
                    desde == IF antes.tempos_execucao # <<>>
                             THEN Cauda(antes.tempos_execucao)[2]
                             ELSE antes.tempo_chegada
                IN objetos'[r].tempo_em_espera = antes.tempo_em_espera + inicio - desde
      ]_vars

\* The idle step of a clock-driven loop: no queued task has arrived.
PassoOcioso ==
    /\ pc = "executando"
    /\ estrategia \notin {"FIFO", "SJF"}
    /\ Len(Chegaram(fila, tempo_atual)) = 0

\* C31: in the clock-driven strategies the idle step moves the clock to the
\* smallest whole time unit strictly above the current clock, also when the
\* clock is fractional.
C31_OcioProximaUnidadeInteira ==
    [][PassoOcioso => tempo_atual' = (tempo_atual \div Unidade + 1) * Unidade]_vars

\* A step of a preemptive loop whose burst left its task unfinished.
Preemptou ==
    /\ estrategia \in Preemptivas
    /\ Len(historico') > Len(historico)
    /\ Cauda(historico').restante > 0

\* The queue f at clock agora is a run of arrived tasks followed by tasks
\* that have not arrived, the latter in non-decreasing arrival order.
PrefixoChegado(f, agora) ==
    \E p \in 0..Len(f) :
        /\ \A j \in 1..p : objetos[f[j]].tempo_chegada <= agora
        /\ \A j \in (p+1)..Len(f) : objetos[f[j]].tempo_chegada > agora
        /\ \A j \in (p+1)..(Len(f) - 1) :
             objetos[f[j]].tempo_chegada <= objetos[f[j+1]].tempo_chegada

\* C32: in every preemptive strategy a preempted task goes back into the
\* queue exactly once, after every queued task that has arrived by the clock
\* (overhead included) and right before the first that has not, the other
\* tasks keeping their order; and in every state of a preemptive run the
\* queue is a run of arrived tasks followed by the tasks that have not
\* arrived, in non-decreasing arrival order.
C32_ReinsercaoOrdenada ==
    /\ [](estrategia \in Preemptivas => PrefixoChegado(fila, tempo_atual))
    /\ [][Preemptou =>
            LET r == Cauda(historico').ref
                resto == Remover(fila, r)
            IN \E i \in 1..Len(fila') :
                 /\ fila'[i] = r
                 /\ fila' = SubSeq(resto, 1, i - 1) \o <<r>> \o SubSeq(resto, i, Len(resto))
                 /\ \A j \in 1..Len(resto) : resto[j] # r
                 /\ \A j \in 1..(i - 1) : objetos[resto[j]].tempo_chegada <= tempo_atual'
                 /\ i <= Len(resto) => objetos[resto[i]].tempo_chegada > tempo_atual'
         ]_vars

\* C32 witness: a preempted task has just gone back into the queue between a
\* task that had arrived and one that had not.
C32_Testemunha ==
    /\ estrategia \in Preemptivas
    /\ Len(historico) > 0
    /\ Cauda(historico).restante > 0
    /\ tempo_atual = Cauda(historico).fim + Sobrecarga
    /\ Len(fila) = 3
    /\ fila[2] = Cauda(historico).ref
    /\ objetos[fila[1]].tempo_chegada <= tempo_atual
    /\ objetos[fila[3]].tempo_chegada > tempo_atual

\* C33: under every strategy every recorded burst starts at or after its
\* task's tempo_chegada, and tempo_inicio - tempo_chegada, the response time,
\* is never negative.
C33_NadaAntesDaChegada ==
    \A r \in Refs :
        LET o == objetos[r] IN
        /\ \A k \in 1..Len(o.tempos_execucao) : o.tempos_execucao[k][1] >= o.tempo_chegada
        /\ o.tempo_inicio # None => o.tempo_inicio - o.tempo_chegada >= 0
        /\ o.tempo_de_resposta # None => o.tempo_de_resposta >= 0

\* C33 witness: a run-to-completion strategy reached a task while the clock
\* was still before the task's arrival, and started it at its arrival.
C33_Testemunha ==
    /\ estrategia \in {"FIFO", "SJF"}
    /\ Len(historico) >= 2
    /\ LET h == Cauda(historico)
           p == historico[Len(historico) - 1]
       IN /\ h.ref # p.ref
          /\ p.fim < objetos[h.ref].tempo_chegada
          /\ h.inicio = objetos[h.ref].tempo_chegada
          /\ objetos[h.ref].tempo_de_resposta = 0

\* C34: at every selection step of EscalonadorFutureVisionMediaIntervalo,
\* limite of the arrived list is the mean tempo_restante plus the exact
\* midpoint (min tempo_chegada + max tempo_chegada) / 2 of the arrived tasks,
\* also when min + max is odd.  (Both sides times 2 * Len.)
C34_LimitePontoMedioExato ==
    (pc = "executando" /\ estrategia = "FutureVisionMediaIntervalo"
       /\ Len(Chegaram(fila, tempo_atual)) > 0) =>
        LET l == Ordenar(Chegaram(fila, tempo_atual), ChaveRestante)
            cs == {objetos[l[i]].tempo_chegada : i \in 1..Len(l)}
            mn == CHOOSE c \in cs : \A d \in cs : c <= d
            mx == CHOOSE c \in cs : \A d \in cs : c >= d
        IN limite("FutureVisionMediaIntervalo", l)
             = 2 * SomaRestante(l) + Len(l) * (mn + mx)

\* C35: no step of any strategy decreases sobrecarga_total, neither the step
\* in which UG sets quantum_atual back to the base quantum nor a later
\* escalonar() call on the same scheduler; and FIFO, SJF and non-preemptive
\* priority leave it at its initial value 0.
C35_SobrecargaNuncaDiminui ==
    /\ [](estrategia \in NaoPreemptivas => sobrecarga_total = 0)
    /\ [][sobrecarga_total' >= sobrecarga_total]_vars

\* C35 witness: a UG scheduler that has paid overhead, has had quantum_atual
\* raised and set back, and on which escalonar() was called again after all
\* its tasks had finished (the clock is back at the first arrival).
C35_Testemunha ==
    /\ estrategia = "UG"
    /\ pc = "retornou"
    /\ sobrecarga_total > 0
    /\ quantum_atual = quantum
    /\ \E k \in 1..Len(historico) :
         /\ historico[k].restante = 0
         /\ historico[k].fim - historico[k].inicio > quantum
    /\ \A r \in Refs : objetos[r].tempo_final # None
    /\ \E r \in Refs : tempo_atual < objetos[r].tempo_final

\* tempo_restante of task r just before the i-th dispatch of the log.
RestanteAntesDe(r, i) ==
    LET ks == {k \in 1..(i - 1) : historico[k].ref = r}
    IN IF ks = {} THEN objetos[r].duracao
       ELSE historico[CHOOSE k \in ks : \A m \in ks : m <= k].restante

\* The pairs <<i, j>> of positions in the dispatch log that hold two
\* consecutive bursts of the same task.
BurstsConsecutivos ==
    {ij \in (1..Len(historico)) \X (1..Len(historico)) :
        /\ ij[1] < ij[2]
        /\ historico[ij[1]].ref = historico[ij[2]].ref
        /\ \A k \in (ij[1] + 1)..(ij[2] - 1) : historico[k].ref # historico[ij[1]].ref}

\* C36: under Round-Robin, between two consecutive bursts of a task T every
\* other task that still has time left and had arrived by the end of T's
\* earlier burst plus 0.3 gets exactly one burst, and no task that arrived
\* after that instant gets one.
C36_RoundRobinUmaVoltaPorVez ==
    estrategia = "RoundRobin" =>
        \A ij \in BurstsConsecutivos :
            LET i == ij[1]
                j == ij[2]
                instante == historico[i].fim + Sobrecarga
                entre(r) == {k \in (i + 1)..(j - 1) : historico[k].ref = r}
            IN \A r \in Refs \ {historico[i].ref} :
                 IF objetos[r].tempo_chegada <= instante
                 THEN RestanteAntesDe(r, i) > 0 => Cardinality(entre(r)) = 1
                 ELSE entre(r) = {}

\* C36 witness: between two consecutive Round-Robin bursts of a task another
\* task ran, and a third task, which arrived after the first of the two
\* bursts (overhead included) but before the second, ran only afterwards.
C36_Testemunha ==
    /\ estrategia = "RoundRobin"
    /\ \E ij \in BurstsConsecutivos :
         /\ ij[2] > ij[1] + 1
         /\ \E k \in (ij[2] + 1)..Len(historico) :
              LET c == objetos[historico[k].ref].tempo_chegada IN
              /\ c > historico[ij[1]].fim + Sobrecarga
              /\ c <= historico[ij[2]].inicio

\* The strategies that run every burst for at most the base quantum.
QuantumFixo == Preemptivas \ {"UG"}

\* ceil(d / q) for whole numbers d >= 0 and q > 0
Teto(d, q) == (d + q - 1) \div q

\* C37: when escalonar() of a fixed-quantum strategy has returned, every task
\* of duration d > 0 has exactly ceil(d / Q) bursts, and sobrecarga_total is
\* 0.3 times the sum of ceil(d / Q) - 1 over those tasks, whatever the
\* strategy, the arrival times, the priorities and the deadlines.
C37_BurstsPorTarefa ==
    (estrategia \in QuantumFixo /\ pc = "retornou") =>
        LET positivas == {r \in Refs : objetos[r].duracao > 0}
        IN /\ \A r \in positivas :
                Len(objetos[r].tempos_execucao) = Teto(objetos[r].duracao, quantum)
           /\ sobrecarga_total =
                Sobrecarga * SomaSobre([r \in Refs |-> Teto(objetos[r].duracao, quantum) - 1],
                                       positivas)

\* C37 witness: a returned fixed-quantum run whose only task was preempted,
\* charged the overhead, and dispatched again right after it.
C37_Testemunha ==
    /\ estrategia \in QuantumFixo
    /\ pc = "retornou"
    /\ Len(objetos) = 1
    /\ Len(objetos[1].tempos_execucao) = 3
    /\ objetos[1].tempos_execucao[2][1] = objetos[1].tempos_execucao[1][2] + Sobrecarga
    /\ sobrecarga_total = 2 * Sobrecarga

\* A returned run whose tasks all arrived together and all have a positive
\* duration.
MesmaChegada ==
    /\ pc = "retornou"
    /\ Len(tarefas) > 0
    /\ \A r \in Refs : /\ objetos[r].tempo_chegada = objetos[1].tempo_chegada
                       /\ objetos[r].duracao > 0

\* C38: under every strategy, when all tasks arrive at the same time a and
\* have a positive duration, the resource is never idle: each burst starts
\* where the one before it ended (plus the overhead after a preemption), and
\* when escalonar() returns the largest finish time is a + the sum of the
\* durations + sobrecarga_total.
C38_SemOcio ==
    MesmaChegada =>
        /\ \A r \in Refs : objetos[r].tempo_final # None
        /\ \E r \in Refs :
             /\ \A s \in Refs : objetos[s].tempo_final <= objetos[r].tempo_final
             /\ objetos[r].tempo_final =
                  objetos[1].tempo_chegada
                  + SomaSobre([s \in Refs |-> objetos[s].duracao], Refs)
                  + sobrecarga_total
        /\ historico[1].inicio = objetos[1].tempo_chegada
        /\ \A k \in 1..(Len(historico) - 1) :
             historico[k+1].inicio =
                 historico[k].fim
                 + (IF estrategia \in Preemptivas /\ historico[k].restante > 0
                    THEN Sobrecarga ELSE 0)

\* C38 witness: a returned run of three tasks that all arrived at the same
\* positive time, with overhead paid.
C38_Testemunha ==
    /\ MesmaChegada
    /\ Len(objetos) = 3
    /\ objetos[1].tempo_chegada > 0
    /\ sobrecarga_total > 0

\* The three variants whose threshold uses a single estimate of the arrival
\* time.
VariantesSimples == {"FutureVision", "FutureVisionMedia", "FutureVisionMediaIntervalo"}

\* C39: for the arrived list of every selection step, in its tempo_restante
\* order, limite of the Min variant <= limite of each of the median, mean
\* and midpoint variants <= limite of the Max variant; so a task whose wait
\* is above the Max variant's threshold is above the threshold of every
\* other variant too.
C39_LimitesOrdenados ==
    (pc = "executando" /\ Len(Chegaram(fila, tempo_atual)) > 0) =>
        LET l == Ordenar(Chegaram(fila, tempo_atual), ChaveRestante)
            n == Len(l)
        IN /\ \A e \in VariantesSimples :
                /\ limite("FutureVisionMin", l) <= limite(e, l)
                /\ limite(e, l) <= limite("FutureVisionMax", l)
           /\ \A i \in 1..n :
                2 * n * TempoAguardando(objetos[l[i]], tempo_atual)
                    > limite("FutureVisionMax", l)
                  => \A e \in FutureVisions :
                       2 * n * TempoAguardando(objetos[l[i]], tempo_atual) > limite(e, l)

\* C39 witness: a selection step of the Max variant at which the five
\* thresholds are not all equal and some arrived task has waited longer than
\* the largest of them.
C39_Testemunha ==
    /\ pc = "executando"
    /\ estrategia = "FutureVisionMax"
    /\ Len(Chegaram(fila, tempo_atual)) > 0
    /\ LET l == Ordenar(Chegaram(fila, tempo_atual), ChaveRestante)
       IN /\ limite("FutureVisionMin", l) < limite("FutureVisionMax", l)
          /\ \E i \in 1..Len(l) :
               2 * Len(l) * TempoAguardando(objetos[l[i]], tempo_atual)
                   > limite("FutureVisionMax", l)

\* C40: under EscalonadorUG quantum_atual is never below the base quantum; a
\* burst of a dispatch that is not urgent is at most the base quantum, also
\* while quantum_atual is raised, and a burst of an urgent dispatch is at most
\* quantum_atual as incremented for that dispatch.
C40_QuantumAdaptativoLimitado ==
    /\ [](estrategia = "UG" => quantum_atual >= quantum)
    /\ [][(estrategia = "UG" /\ Len(historico') > Len(historico)) =>
            LET h == Cauda(historico')
                antes == objetos[h.ref]
            IN IF Urgente(antes.prioridade, antes.deadline, antes.tempo_restante)
               THEN h.fim - h.inicio <= quantum_atual + Unidade
               ELSE h.fim - h.inicio <= quantum
       ]_vars

\* C40 witness: a UG run whose first dispatch was urgent and ran for the base
\* quantum plus one, and whose latest dispatch, not urgent, was cut at the
\* base quantum with work left while quantum_atual was still raised.
C40_Testemunha ==
    /\ estrategia = "UG"
    /\ Len(historico) >= 2
    /\ quantum_atual > quantum
    /\ historico[1].fim - historico[1].inicio = quantum + Unidade
    /\ LET h == Cauda(historico)
           o == objetos[h.ref]
       IN /\ h.restante > 0
          /\ h.fim - h.inicio = quantum
          /\ ~Urgente(o.prioridade, o.deadline, h.restante + h.fim - h.inicio)
====
